---- MODULE Spec2Model ----
(***************************************************************************)
(* Input-capture driver for STM32 timers (drivers/ic/ic.c) with the public *)
(* API of include/drivers/ic.h.                                            *)
(*                                                                         *)
(* The model holds the timer registers the driver touches, the per-device  *)
(* capture session (struct ic_stm32_capture_data) and one action per       *)
(* driver entry point, per interrupt entry and per hardware event.         *)
(*                                                                         *)
(* uint32_t register values are kept as two 16-bit halves <<hi, lo>>       *)
(* because 0xFFFFFFFF is outside the model checker's integer range; the    *)
(* uint64_t values of the conversions are kept as decimal digits.          *)
(***************************************************************************)
EXTENDS Integers, Sequences, FiniteSets, TLC

(***************************************************************************)
(* Bounds of the model.                                                    *)
(***************************************************************************)
\* cap on cpt->overflows (the guard of the counter-overflow event)
MaxOverflows == 2
\* largest value of the build-time discard count explored by SpecSkipped
MaxSkipped == 1

(***************************************************************************)
(* Program constants.                                                      *)
(***************************************************************************)
SKIPPED_IC_CAPTURES == 0
IC_CAPTURE_TYPE_SHIFT == 1
IC_CAPTURE_MODE_SHIFT == 3
xFFFF == 65535
USEC_PER_SEC == 1000000

NULL == "NULL"
Callbacks == {"cb1"}
UserData == {"NULL", "ud1"}
\* channel arguments: an unsupported channel, channel 1, channel 2
Channels == {0, 1, 2}
\* flags arguments: polarity is bit 0, capture type bits 1-2, mode bit 3;
\* period, pulse, both, period | continuous | inverted
FlagValues == {2, 4, 6, 11}
\* flags and (callback, user_data) arguments of the calls taken statement
\* by statement: period single-shot and period | continuous; two callbacks,
\* each always passed with its own user_data
PreemptFlags == {2, 10}
PreemptPairs == {<<"cb1", "ud1">>, <<"cb2", "ud2">>}
\* every value of the polarity, capture type and mode bits
AllFlags == 0 .. 15

\* a uint32_t as two 16-bit halves
U32(hi, lo) == <<hi, lo>>
Lt32(a, b) == a[1] < b[1] \/ (a[1] = b[1] /\ a[2] < b[2])
Le32(a, b) == ~Lt32(b, a)
\* u + 1 in uint32_t arithmetic
Inc32(u) ==
    IF u[2] < xFFFF THEN U32(u[1], u[2] + 1)
    ELSE IF u[1] < xFFFF THEN U32(u[1] + 1, 0)
    ELSE U32(0, 0)
\* values of the free-running counter at the moment of an input edge
CounterValues == {U32(0, 2000)}

\* flags & (1U << shift)
FlagBit(flags, shift) == (flags \div (2 ^ shift)) % 2 = 1
\* flags & IC_CAPTURE_TYPE_PERIOD
IC_CAPTURE_TYPE_PERIOD(flags) == FlagBit(flags, IC_CAPTURE_TYPE_SHIFT)
\* flags & IC_CAPTURE_MODE_CONTINUOUS
IC_CAPTURE_MODE_CONTINUOUS(flags) == FlagBit(flags, IC_CAPTURE_MODE_SHIFT)
\* (flags & IC_CAPTURE_TYPE_MASK) >> IC_CAPTURE_TYPE_SHIFT: 1 is period,
\* 2 is pulse, 3 is both
IC_CAPTURE_TYPE(flags) == (flags \div (2 ^ IC_CAPTURE_TYPE_SHIFT)) % 4
\* (flags & PWM_POLARITY_MASK) == PWM_POLARITY_INVERTED
PWM_POLARITY_INVERTED(flags) == FlagBit(flags, 0)

(***************************************************************************)
(* uint64_t values are kept as their decimal digits, most significant      *)
(* first, zero being <<0>>.                                                *)
(***************************************************************************)
RECURSIVE Norm(_)
Norm(ds) == IF Len(ds) > 1 /\ Head(ds) = 0 THEN Norm(Tail(ds)) ELSE ds

RECURSIVE ToDigits(_)
ToDigits(n) == IF n < 10 THEN <<n>> ELSE Append(ToDigits(n \div 10), n % 10)

LtDigits(a, b) ==
    LET x == Norm(a)
        y == Norm(b)
    IN  \/ Len(x) < Len(y)
        \/ /\ Len(x) = Len(y)
           /\ \E i \in 1 .. Len(x) :
                  /\ x[i] < y[i]
                  /\ \A j \in 1 .. (i - 1) : x[j] = y[j]
LeDigits(a, b) == ~LtDigits(b, a)

\* ds + 1
RECURSIVE IncDigits(_)
IncDigits(ds) ==
    IF ds = <<>> THEN <<1>>
    ELSE IF ds[Len(ds)] < 9 THEN [ds EXCEPT ![Len(ds)] = @ + 1]
    ELSE Append(IncDigits(SubSeq(ds, 1, Len(ds) - 1)), 0)

\* ds * m + carry, digit by digit from the least significant
RECURSIVE MulCarry(_, _, _)
MulCarry(ds, m, carry) ==
    IF ds = <<>> THEN ToDigits(carry)
    ELSE LET t == ds[Len(ds)] * m + carry
         IN  Append(MulCarry(SubSeq(ds, 1, Len(ds) - 1), m, t \div 10),
                    t % 10)
MulSmall(ds, m) == Norm(MulCarry(ds, m, 0))

\* ds / d truncated, by long division from the most significant digit with
\* the running remainder r
RECURSIVE DivRem(_, _, _)
DivRem(ds, d, r) ==
    IF ds = <<>> THEN <<>>
    ELSE LET cur == r * 10 + Head(ds)
         IN  <<cur \div d>> \o DivRem(Tail(ds), d, cur % d)
DivSmall(ds, d) == Norm(DivRem(ds, d, 0))

\* UINT64_MAX, 2^64 - 1
U64Max == <<1, 8, 4, 4, 6, 7, 4, 4, 0, 7, 3, 7, 0, 9, 5, 5, 1, 6, 1, 5>>

\* data->tim_clk as ic_stm32_init resolved it, in Hz
TimClks == {16000000, 48000000}
\* cfg->prescaler: values of the timer's 16-bit prescaler register
Prescalers == {U32(0, 0), U32(0, 3), U32(0, 15), U32(0, xFFFF)}
\* the clock tree get_tim_clk reads: APB prescalers, the bus rate reported
\* by the clock controller and the core clock reported by the RCC, in Hz
ApbPrescalers == {1, 2, 4, 8, 16}
BusClks == {12000000, 24000000, 49999987}
HclkValues == {48000000, 99999975}
\* the cycles argument of the conversions, a uint32_t
CycleValues ==
    {<<0>>, <<1>>, <<1, 5>>, <<1, 6>>, <<2, 0, 0, 0>>, <<6, 5, 5, 3, 5>>,
     <<4, 2, 9, 4, 9, 6, 7, 2, 9, 5>>}

VARIABLES
    cfg,    \* struct ic_stm32_config, data->tim_clk and the build:
            \* [is32b, skipped, prescaler, tim_clk]
    tim,    \* the timer's registers (cfg->timer)
    cpt,    \* data->capture, struct ic_stm32_capture_data
    cbs,    \* the callback invocations made by the last step, in order
    op,     \* the last step: its name, channel argument, return value, for
            \* enable_capture and the ISR the counters and flags on entry,
            \* for the conversions the cycles argument and the value stored
            \* through the output pointer
    hist,   \* since the last successful enable_capture: the ISR handled a
            \* capture-compare event (seen), a single-shot capture completed
            \* (shot); the number of overflow events the ISR handled since
            \* the last successful enable_capture or valid capture (since),
            \* or valid capture of a continuous session (sinceCont)
    conf,   \* the callback and user_data arguments of the most recent
            \* configure_capture that returned 0 (valid: there was one)
    task    \* the driver call in progress in task context where calls are
            \* taken one statement at a time: the function, the index of
            \* its next statement and its arguments; for each flag, whether
            \* it was set on entry and is still set ("pending") or has been
            \* cleared since ("cleared"); whether the ISR has run since
            \* entry

vars == <<cfg, tim, cpt, cbs, op, hist, conf, task>>

\* the part of the state the driver functions read and write
St == [tim |-> tim, cpt |-> cpt, cbs |-> <<>>]

(***************************************************************************)
(* ic_stm32_init: the timer is initialised with Autoreload 0, the counter  *)
(* is enabled, every interrupt is disabled; the static device data is      *)
(* zero-initialised.                                                       *)
(***************************************************************************)
TimInit ==
    [CC1IE |-> FALSE, UIE |-> FALSE, CC1E |-> FALSE,
     UIF |-> FALSE, CC1IF |-> FALSE,
     CNT |-> U32(0, 0), CCR1 |-> U32(0, 0), ARR |-> U32(0, 0),
     ARPE |-> FALSE, UDIS |-> FALSE, URS |-> "REGULAR",
     IC1 |-> [ActiveInput |-> "RESET", Polarity |-> "RESET",
              Prescaler |-> "RESET", Filter |-> "RESET"]]

CptInit ==
    [callback |-> NULL, user_data |-> "NULL", period |-> U32(0, 0),
     overflows |-> 0, skip_irq |-> 0, continuous |-> FALSE]

NoPre == [overflows |-> 0, skip_irq |-> 0, UIF |-> FALSE, CC1IF |-> FALSE]
Pre == [overflows |-> cpt.overflows, skip_irq |-> cpt.skip_irq,
        UIF |-> tim.UIF, CC1IF |-> tim.CC1IF]

\* type: the capture type of the flags argument where configure_capture
\* got as far as reading it, NoType elsewhere
NoType == -1
Op(name, channel, ret, pre) ==
    [name |-> name, channel |-> channel, ret |-> ret, pre |-> pre,
     type |-> NoType, arg |-> <<>>, out |-> <<>>]

TaskIdle ==
    [fn |-> "idle", pc |-> 0, channel |-> 0, flags |-> 0, cb |-> NULL,
     user_data |-> "NULL", staleCC1 |-> "no", staleUIF |-> "no",
     preempted |-> FALSE]

InitCommon ==
    /\ tim = TimInit
    /\ cpt = CptInit
    /\ cbs = <<>>
    /\ op = Op("init", 0, "0", NoPre)
    /\ hist = [seen |-> FALSE, shot |-> FALSE, since |-> 0, sinceCont |-> 0]
    /\ conf = [valid |-> FALSE, cb |-> NULL, user_data |-> "NULL"]
    /\ task = TaskIdle

\* the build as shipped: SKIPPED_IC_CAPTURES as defined, on a 16-bit or a
\* 32-bit timer instance
Init ==
    /\ cfg \in [is32b : BOOLEAN, skipped : {SKIPPED_IC_CAPTURES},
                prescaler : {U32(0, 0)}, tim_clk : {16000000}]
    /\ InitCommon


(***************************************************************************)
(* Driver functions.  Each takes the state st = [tim, cpt, cbs] and gives  *)
(* [st |-> the state it leaves, ret |-> its return value].                 *)
(***************************************************************************)
Ret(st, ret) == [st |-> st, ret |-> ret]

\* init_capture_channel: ll_error is LL_TIM_IC_Init(...) != SUCCESS
init_capture_channel(st, channel, flags, ll_channel, ll_error) ==
    LET is_inverted == PWM_POLARITY_INVERTED(flags)
        direct == (ll_channel = "CH1") = (channel = 1)
        ic == [ActiveInput |-> IF direct THEN "DIRECTTI" ELSE "INDIRECTTI",
               Polarity |-> IF direct = is_inverted THEN "FALLING"
                                                    ELSE "RISING",
               Prescaler |-> "DIV1", Filter |-> "FDIV1"]
    IN  IF ll_error
        THEN Ret(st, "-EIO")
        ELSE Ret([st EXCEPT !.tim.IC1 = ic], "0")

\* variant: the arguments are stored before the busy check
configure_store_first(st, is32b, channel, flags, cb, user_data, ll_error) ==
    LET s1 == [st EXCEPT !.cpt.callback = cb,
                         !.cpt.user_data = user_data,
                         !.cpt.continuous = IC_CAPTURE_MODE_CONTINUOUS(flags)]
    IN  IF channel # 1 THEN Ret(st, "-ENOTSUP")
        ELSE IF st.tim.CC1IE THEN Ret(s1, "-EBUSY")
        ELSE IF ~IC_CAPTURE_TYPE_PERIOD(flags) THEN Ret(st, "-EINVAL")
        ELSE
            LET r == init_capture_channel(s1, channel, flags, "CH1", ll_error)
            IN  IF r.ret # "0"
                THEN r
                ELSE Ret([r.st EXCEPT !.tim.ARPE = TRUE,
                                      !.tim.ARR = IF ~is32b
                                                  THEN U32(0, xFFFF)
                                                  ELSE U32(xFFFF, xFFFF),
                                      !.tim.UDIS = FALSE],
                         "0")

\* variant: channel 2 is let through, as enable_capture lets it through
configure_two_channels(st, is32b, channel, flags, cb, user_data, ll_error) ==
    IF channel # 1 /\ channel # 2 THEN Ret(st, "-ENOTSUP")
    ELSE IF st.tim.CC1IE THEN Ret(st, "-EBUSY")
    ELSE IF ~IC_CAPTURE_TYPE_PERIOD(flags) THEN Ret(st, "-EINVAL")
    ELSE
        LET s1 == [st EXCEPT !.cpt.callback = cb,
                             !.cpt.user_data = user_data,
                             !.cpt.continuous =
                                 IC_CAPTURE_MODE_CONTINUOUS(flags)]
            r == init_capture_channel(s1, channel, flags, "CH1", ll_error)
        IN  IF r.ret # "0"
            THEN r
            ELSE Ret([r.st EXCEPT !.tim.ARPE = TRUE,
                                  !.tim.ARR = IF ~is32b
                                              THEN U32(0, xFFFF)
                                              ELSE U32(xFFFF, xFFFF),
                                  !.tim.UDIS = FALSE],
                     "0")

\* variant: the arguments are stored before the capture type is checked
configure_store_before_type(st, is32b, channel, flags, cb, user_data, ll_error) ==
    LET s1 == [st EXCEPT !.cpt.callback = cb,
                         !.cpt.user_data = user_data,
                         !.cpt.continuous = IC_CAPTURE_MODE_CONTINUOUS(flags)]
    IN  IF channel # 1 THEN Ret(st, "-ENOTSUP")
        ELSE IF st.tim.CC1IE THEN Ret(st, "-EBUSY")
        ELSE IF ~IC_CAPTURE_TYPE_PERIOD(flags) THEN Ret(s1, "-EINVAL")
        ELSE
            LET r == init_capture_channel(s1, channel, flags, "CH1", ll_error)
            IN  IF r.ret # "0"
                THEN r
                ELSE Ret([r.st EXCEPT !.tim.ARPE = TRUE,
                                      !.tim.ARR = IF ~is32b
                                                  THEN U32(0, xFFFF)
                                                  ELSE U32(xFFFF, xFFFF),
                                      !.tim.UDIS = FALSE],
                         "0")

\* variant: a new configuration also clears the session's counters
configure_reset_counters(st, is32b, channel, flags, cb, user_data, ll_error) ==
    IF channel # 1 THEN Ret(st, "-ENOTSUP")
    ELSE IF st.tim.CC1IE THEN Ret(st, "-EBUSY")
    ELSE IF ~IC_CAPTURE_TYPE_PERIOD(flags) THEN Ret(st, "-EINVAL")
    ELSE
        LET s1 == [st EXCEPT !.cpt.callback = cb,
                             !.cpt.user_data = user_data,
                             !.cpt.continuous =
                                 IC_CAPTURE_MODE_CONTINUOUS(flags)]
            r == init_capture_channel(s1, channel, flags, "CH1", ll_error)
        IN  IF r.ret # "0"
            THEN r
            ELSE Ret([r.st EXCEPT !.tim.ARPE = TRUE,
                                  !.tim.ARR = IF ~is32b
                                              THEN U32(0, xFFFF)
                                              ELSE U32(xFFFF, xFFFF),
                                  !.tim.UDIS = FALSE,
                                  !.cpt.overflows = 0,
                                  !.cpt.period = U32(0, 0)],
                     "0")

ic_stm32_configure_capture(st, is32b, channel, flags, cb, user_data, ll_error) ==
    IF channel # 1 THEN Ret(st, "-ENOTSUP")
    ELSE IF st.tim.CC1IE THEN Ret(st, "-EBUSY")
    ELSE IF ~IC_CAPTURE_TYPE_PERIOD(flags) THEN Ret(st, "-EINVAL")
    ELSE
        LET s1 == [st EXCEPT !.cpt.callback = cb,
                             !.cpt.user_data = user_data,
                             !.cpt.continuous =
                                 IC_CAPTURE_MODE_CONTINUOUS(flags)]
            r == init_capture_channel(s1, channel, flags, "CH1", ll_error)
        IN  IF r.ret # "0"
            THEN r
            ELSE Ret([r.st EXCEPT !.tim.ARPE = TRUE,
                                  !.tim.ARR = IF ~is32b
                                              THEN U32(0, xFFFF)
                                              ELSE U32(xFFFF, xFFFF),
                                  !.tim.UDIS = FALSE],
                     "0")

\* LL_TIM_GenerateEvent_UPDATE: the counter is re-initialised; the update
\* flag is set unless update events are disabled or restricted to counter
\* overflow
LL_TIM_GenerateEvent_UPDATE(t) ==
    [t EXCEPT !.CNT = U32(0, 0),
              !.UIF = IF ~t.UDIS /\ t.URS = "REGULAR" THEN TRUE ELSE @]

\* variant: cpt->overflows is left as the previous session left it
enable_keep_overflows(st, skipped, channel) ==
    IF channel # 1 /\ channel # 2 THEN Ret(st, "-EINVAL")
    ELSE IF st.tim.CC1IE THEN Ret(st, "-EBUSY")
    ELSE IF st.cpt.callback = NULL THEN Ret(st, "-EINVAL")
    ELSE
        LET s1 == [st EXCEPT !.cpt.skip_irq = skipped,
                             !.tim.CC1IF = FALSE,
                             !.tim.UIF = FALSE]
            s2 == [s1 EXCEPT !.tim.CC1IE = TRUE,
                             !.tim.UIE = TRUE,
                             !.tim.CC1E = TRUE]
        IN  Ret([s2 EXCEPT !.tim = LL_TIM_GenerateEvent_UPDATE(@)], "0")

\* variant: the callback is not checked before arming
enable_unconfigured(st, skipped, channel) ==
    IF channel # 1 /\ channel # 2 THEN Ret(st, "-EINVAL")
    ELSE IF st.tim.CC1IE THEN Ret(st, "-EBUSY")
    ELSE
        LET s1 == [st EXCEPT !.cpt.skip_irq = skipped,
                             !.cpt.overflows = 0,
                             !.tim.CC1IF = FALSE,
                             !.tim.UIF = FALSE]
            s2 == [s1 EXCEPT !.tim.CC1IE = TRUE,
                             !.tim.UIE = TRUE,
                             !.tim.CC1E = TRUE]
        IN  Ret([s2 EXCEPT !.tim = LL_TIM_GenerateEvent_UPDATE(@)], "0")

\* variant: the counters and flags are reset before the busy check
enable_reset_first(st, skipped, channel) ==
    IF channel # 1 /\ channel # 2 THEN Ret(st, "-EINVAL")
    ELSE
        LET s1 == [st EXCEPT !.cpt.skip_irq = skipped,
                             !.cpt.overflows = 0,
                             !.tim.CC1IF = FALSE,
                             !.tim.UIF = FALSE]
            s2 == [s1 EXCEPT !.tim.CC1IE = TRUE,
                             !.tim.UIE = TRUE,
                             !.tim.CC1E = TRUE]
        IN  IF st.tim.CC1IE THEN Ret(s1, "-EBUSY")
            ELSE IF st.cpt.callback = NULL THEN Ret(st, "-EINVAL")
            ELSE Ret([s2 EXCEPT !.tim = LL_TIM_GenerateEvent_UPDATE(@)], "0")

\* variant: only the capture-compare interrupt is enabled
enable_capture_interrupt_only(st, skipped, channel) ==
    IF channel # 1 /\ channel # 2 THEN Ret(st, "-EINVAL")
    ELSE IF st.tim.CC1IE THEN Ret(st, "-EBUSY")
    ELSE IF st.cpt.callback = NULL THEN Ret(st, "-EINVAL")
    ELSE
        LET s1 == [st EXCEPT !.cpt.skip_irq = skipped,
                             !.cpt.overflows = 0,
                             !.tim.CC1IF = FALSE,
                             !.tim.UIF = FALSE]
            s2 == [s1 EXCEPT !.tim.CC1IE = TRUE,
                             !.tim.CC1E = TRUE]
        IN  Ret([s2 EXCEPT !.tim = LL_TIM_GenerateEvent_UPDATE(@)], "0")

\* variant: the pending flags are not cleared before the interrupts are
\* enabled
enable_keep_stale_flags(st, skipped, channel) ==
    IF channel # 1 /\ channel # 2 THEN Ret(st, "-EINVAL")
    ELSE IF st.tim.CC1IE THEN Ret(st, "-EBUSY")
    ELSE IF st.cpt.callback = NULL THEN Ret(st, "-EINVAL")
    ELSE
        LET s1 == [st EXCEPT !.cpt.skip_irq = skipped,
                             !.cpt.overflows = 0]
            s2 == [s1 EXCEPT !.tim.CC1IE = TRUE,
                             !.tim.UIE = TRUE,
                             !.tim.CC1E = TRUE]
        IN  Ret([s2 EXCEPT !.tim = LL_TIM_GenerateEvent_UPDATE(@)], "0")

ic_stm32_enable_capture(st, skipped, channel) ==
    IF channel # 1 /\ channel # 2 THEN Ret(st, "-EINVAL")
    ELSE IF st.tim.CC1IE THEN Ret(st, "-EBUSY")
    ELSE IF st.cpt.callback = NULL THEN Ret(st, "-EINVAL")
    ELSE
        LET s1 == [st EXCEPT !.cpt.skip_irq = skipped,
                             !.cpt.overflows = 0,
                             !.tim.CC1IF = FALSE,
                             !.tim.UIF = FALSE]
            s2 == [s1 EXCEPT !.tim.CC1IE = TRUE,
                             !.tim.UIE = TRUE,
                             !.tim.CC1E = TRUE]
        IN  Ret([s2 EXCEPT !.tim = LL_TIM_GenerateEvent_UPDATE(@)], "0")

\* variant: the update interrupt is left enabled
disable_keep_update(st, channel) ==
    IF channel # 1 /\ channel # 2 THEN Ret(st, "-EINVAL")
    ELSE Ret([st EXCEPT !.tim.URS = "REGULAR",
                        !.tim.CC1IE = FALSE,
                        !.tim.CC1E = FALSE],
             "0")

ic_stm32_disable_capture(st, channel) ==
    IF channel # 1 /\ channel # 2 THEN Ret(st, "-EINVAL")
    ELSE Ret([st EXCEPT !.tim.URS = "REGULAR",
                        !.tim.CC1IE = FALSE,
                        !.tim.UIE = FALSE,
                        !.tim.CC1E = FALSE],
             "0")

\* get_pwm_capture
get_pwm_capture(st, channel) == [st EXCEPT !.cpt.period = st.tim.CCR1]


(***************************************************************************)
(* Clock rate and conversions.                                             *)
(***************************************************************************)
\* variant: the core clock is used only below the threshold
get_tim_clk_below_threshold(k) ==
    IF k.rate_error THEN [ret |-> "-EIO", written |-> FALSE, tim_clk |-> 0]
    ELSE [ret |-> "0", written |-> TRUE,
          tim_clk |->
              CASE k.timpre = "TWICE" ->
                       IF k.apb_psc < 2 THEN k.hclk ELSE k.bus_clk * 2
                [] k.timpre = "FOUR" ->
                       IF k.apb_psc < 4 THEN k.hclk ELSE k.bus_clk * 4
                [] k.timpre = "NONE" ->
                       IF k.apb_psc = 1 THEN k.bus_clk ELSE k.bus_clk * 2]

\* get_tim_clk.  k is what the function reads: rate_error, whether
\* clock_control_get_rate fails, and bus_clk, the rate it stores; apb_psc,
\* the APB prescaler of the timer's bus; timpre, "NONE" on a series built
\* without a TIMPRE bit, else what LL_RCC_GetTIMPrescaler returns; hclk,
\* the HCLK_Frequency of LL_RCC_GetSystemClocksFreq.  The products stay
\* below 2^31 for the rates of BusClks.  "-EIO" stands for the negative
\* value of clock_control_get_rate, returned as it is.
get_tim_clk(k) ==
    IF k.rate_error THEN [ret |-> "-EIO", written |-> FALSE, tim_clk |-> 0]
    ELSE [ret |-> "0", written |-> TRUE,
          tim_clk |->
              CASE k.timpre = "TWICE" ->
                       IF k.apb_psc <= 2 THEN k.hclk ELSE k.bus_clk * 2
                [] k.timpre = "FOUR" ->
                       IF k.apb_psc <= 4 THEN k.hclk ELSE k.bus_clk * 4
                [] k.timpre = "NONE" ->
                       IF k.apb_psc = 1 THEN k.bus_clk ELSE k.bus_clk * 2]

\* variant: the prescaler is left out of the rate
cycles_per_sec_no_prescaler(c, channel) ==
    [ret |-> "0", cycles |-> c.tim_clk]

\* data->tim_clk / (cfg->prescaler + 1) in uint32_t arithmetic, tim_clk
\* being below 2^31; a division by zero is undefined ("fault")
ic_stm32_get_cycles_per_sec(c, channel) ==
    LET d == Inc32(c.prescaler)
    IN  IF d = U32(0, 0) THEN [ret |-> "fault", cycles |-> 0]
        ELSE [ret |-> "0",
              cycles |-> IF d[1] >= 32768 THEN 0
                         ELSE c.tim_clk \div (d[1] * 65536 + d[2])]

\* u64_mul_overflow(a, b, &result): the product and whether it is above
\* UINT64_MAX (the caller does not read the result then)
u64_mul_overflow(a, b) ==
    LET p == MulSmall(a, b)
    IN  [overflow |-> LtDigits(U64Max, p), result |-> p]

\* variant: the multiplier is that of milliseconds
cycles_to_msec(c, channel, cycles) ==
    LET g == ic_stm32_get_cycles_per_sec(c, channel)
        m == u64_mul_overflow(cycles, 1000)
    IN  IF g.ret # "0" THEN [ret |-> g.ret, usec |-> <<>>]
        ELSE IF m.overflow THEN [ret |-> "-ERANGE", usec |-> <<>>]
        ELSE IF g.cycles = 0 THEN [ret |-> "fault", usec |-> <<>>]
        ELSE [ret |-> "0", usec |-> DivSmall(m.result, g.cycles)]

\* variant: the product is kept in a narrower type, here its low nine
\* decimal digits
cycles_to_usec_narrow(c, channel, cycles) ==
    LET g == ic_stm32_get_cycles_per_sec(c, channel)
        m == u64_mul_overflow(cycles, USEC_PER_SEC)
        n == Len(m.result)
        low == Norm(SubSeq(m.result, IF n > 9 THEN n - 8 ELSE 1, n))
    IN  IF g.ret # "0" THEN [ret |-> g.ret, usec |-> <<>>]
        ELSE IF m.overflow THEN [ret |-> "-ERANGE", usec |-> <<>>]
        ELSE IF g.cycles = 0 THEN [ret |-> "fault", usec |-> <<>>]
        ELSE [ret |-> "0", usec |-> DivSmall(low, g.cycles)]

ic_cycles_to_usec(c, channel, cycles) ==
    LET g == ic_stm32_get_cycles_per_sec(c, channel)
        m == u64_mul_overflow(cycles, USEC_PER_SEC)
    IN  IF g.ret # "0" THEN [ret |-> g.ret, usec |-> <<>>]
        ELSE IF m.overflow THEN [ret |-> "-ERANGE", usec |-> <<>>]
        ELSE IF g.cycles = 0 THEN [ret |-> "fault", usec |-> <<>>]
        ELSE [ret |-> "0", usec |-> DivSmall(m.result, g.cycles)]


(***************************************************************************)
(* Interrupt handler.                                                      *)
(***************************************************************************)
\* cpt->callback(dev, in_ch, period, 0u, status, cpt->user_data), made only
\* when cpt->callback != NULL; site names the call in the ISR
Invoke(st, site, in_ch, period, status) ==
    IF st.cpt.callback # NULL
    THEN [st EXCEPT !.cbs = Append(@,
              [cb |-> st.cpt.callback, site |-> site, channel |-> in_ch,
               period_cycles |-> period, pulse_cycles |-> 0,
               status |-> status, user_data |-> st.cpt.user_data,
               at |-> [CNT |-> st.tim.CNT, CC1IF |-> st.tim.CC1IF,
                       CC1IE |-> st.tim.CC1IE, UIE |-> st.tim.UIE,
                       period |-> st.cpt.period,
                       overflows |-> st.cpt.overflows]])]
    ELSE st

\* the update branch, taken when LL_TIM_IsActiveFlag_UPDATE
isr_update(st, in_ch) ==
    LET s1 == [st EXCEPT !.tim.UIF = FALSE,
                         !.cpt.overflows = @ + 1]
    IN  Invoke(s1, "overflow", in_ch, U32(0, xFFFF), "-ERANGE")

\* variant: a single-shot capture leaves the channel and interrupts enabled
isr_capture_keep_enabled(st, in_ch, status) ==
    LET s1 == get_pwm_capture([st EXCEPT !.tim.CC1IF = FALSE], in_ch)
        s2 == IF ~s1.cpt.continuous
              THEN s1
              ELSE [s1 EXCEPT !.cpt.overflows = 0]
        s3 == [s2 EXCEPT !.tim.CNT = U32(0, 0)]
    IN  Invoke(s3, "capture", in_ch, s3.cpt.period, status)

\* variant: a single-shot capture disables the capture channel only, not
\* the interrupts
isr_capture_channel_only(st, in_ch, status) ==
    LET s1 == get_pwm_capture([st EXCEPT !.tim.CC1IF = FALSE], in_ch)
        s2 == IF ~s1.cpt.continuous
              THEN [s1 EXCEPT !.tim.CC1E = FALSE]
              ELSE [s1 EXCEPT !.cpt.overflows = 0]
        s3 == [s2 EXCEPT !.tim.CNT = U32(0, 0)]
    IN  Invoke(s3, "capture", in_ch, s3.cpt.period, status)

\* variant: the overflow count is zeroed in single-shot mode too
isr_capture_reset_always(st, in_ch, status) ==
    LET s1 == get_pwm_capture([st EXCEPT !.tim.CC1IF = FALSE], in_ch)
        s2 == IF ~s1.cpt.continuous
              THEN [ic_stm32_disable_capture(s1, in_ch).st
                        EXCEPT !.cpt.overflows = 0]
              ELSE [s1 EXCEPT !.cpt.overflows = 0]
        s3 == [s2 EXCEPT !.tim.CNT = U32(0, 0)]
    IN  Invoke(s3, "capture", in_ch, s3.cpt.period, status)

\* variant: the callback is invoked before the counter is forced to zero
isr_capture_callback_early(st, in_ch, status) ==
    LET s1 == get_pwm_capture([st EXCEPT !.tim.CC1IF = FALSE], in_ch)
        s2 == IF ~s1.cpt.continuous
              THEN ic_stm32_disable_capture(s1, in_ch).st
              ELSE [s1 EXCEPT !.cpt.overflows = 0]
        s3 == Invoke(s2, "capture", in_ch, s2.cpt.period, status)
    IN  [s3 EXCEPT !.tim.CNT = U32(0, 0)]

\* the capture-compare branch, taken when LL_TIM_IsActiveFlag_CC1; status is
\* the handler's local variable as the update branch left it
isr_capture(st, in_ch, status) ==
    LET s1 == get_pwm_capture([st EXCEPT !.tim.CC1IF = FALSE], in_ch)
        s2 == IF ~s1.cpt.continuous
              THEN ic_stm32_disable_capture(s1, in_ch).st
              ELSE [s1 EXCEPT !.cpt.overflows = 0]
        s3 == [s2 EXCEPT !.tim.CNT = U32(0, 0)]
    IN  Invoke(s3, "capture", in_ch, s3.cpt.period, status)

\* variant: every skipped interrupt, overflow or capture, counts
isr_skip_any(st) ==
    [st EXCEPT !.tim.UIF = FALSE, !.tim.CC1IF = FALSE,
               !.cpt.skip_irq = IF st.tim.UIF \/ st.tim.CC1IF
                                THEN @ - 1 ELSE @]

\* the branch taken when cpt->skip_irq != 0
isr_skip(st) ==
    LET s1 == IF st.tim.UIF THEN [st EXCEPT !.tim.UIF = FALSE] ELSE st
    IN  IF s1.tim.CC1IF
        THEN [s1 EXCEPT !.tim.CC1IF = FALSE, !.cpt.skip_irq = @ - 1]
        ELSE s1

\* variant: the capture-compare branch runs before the update branch
isr_capture_first(st) ==
    LET in_ch == IF st.tim.CC1IE THEN 1 ELSE 2
    IN  IF st.cpt.skip_irq = 0
        THEN LET s1 == IF st.tim.CC1IF THEN isr_capture(st, in_ch, "0")
                                       ELSE st
             IN  IF s1.tim.UIF THEN isr_update(s1, in_ch) ELSE s1
        ELSE isr_skip(st)

ic_stm32_isr(st) ==
    LET in_ch == IF st.tim.CC1IE THEN 1 ELSE 2
    IN  IF st.cpt.skip_irq = 0
        THEN LET upd == st.tim.UIF
                 s1 == IF upd THEN isr_update(st, in_ch) ELSE st
                 status == IF upd THEN "-ERANGE" ELSE "0"
             IN  IF s1.tim.CC1IF THEN isr_capture(s1, in_ch, status) ELSE s1
        ELSE isr_skip(st)

(***************************************************************************)
(* The task-context functions one statement at a time, for the            *)
(* interleavings of a call with the ISR.  A sequence names the statements  *)
(* of a function in program order; Statement gives the effect of one.      *)
(***************************************************************************)
\* variant: the arguments are stored before the busy check
configure_statements_store_first ==
    <<"channel_is_1", "callback", "user_data", "continuous",
      "IsEnabledIT_CC1", "type_is_period", "init_capture_channel",
      "EnableARRPreload", "SetAutoReload", "EnableUpdateEvent">>

ConfigureStatements ==
    <<"channel_is_1", "IsEnabledIT_CC1", "type_is_period",
      "callback", "user_data", "continuous", "init_capture_channel",
      "EnableARRPreload", "SetAutoReload", "EnableUpdateEvent">>

\* variant: the interrupts are enabled before the counters are reset and
\* the flags cleared
enable_statements_arm_first ==
    <<"channel_is_1_or_2", "IsEnabledIT_CC1", "callback_is_set",
      "EnableIT_CC1", "EnableIT_UPDATE",
      "skip_irq", "overflows", "ClearFlag_CC1", "ClearFlag_UPDATE",
      "CC_EnableChannel", "GenerateEvent_UPDATE">>

EnableStatements ==
    <<"channel_is_1_or_2", "IsEnabledIT_CC1", "callback_is_set",
      "skip_irq", "overflows", "ClearFlag_CC1", "ClearFlag_UPDATE",
      "EnableIT_CC1", "EnableIT_UPDATE",
      "CC_EnableChannel", "GenerateEvent_UPDATE">>

DisableStatements ==
    <<"channel_is_1_or_2", "SetUpdateSource", "DisableIT_CC1",
      "DisableIT_UPDATE", "CC_DisableChannel">>

StatementsOf(fn) ==
    CASE fn = "configure_capture" -> ConfigureStatements
      [] fn = "enable_capture" -> EnableStatements
      [] fn = "disable_capture" -> DisableStatements

\* the effect of statement name of the call t on st; ret is "" where the
\* function goes on to its next statement, the value returned where it
\* returns early
Statement(st, c, t, name) ==
    CASE name = "channel_is_1" ->
             Ret(st, IF t.channel # 1 THEN "-ENOTSUP" ELSE "")
      [] name = "channel_is_1_or_2" ->
             Ret(st, IF t.channel # 1 /\ t.channel # 2 THEN "-EINVAL"
                                                        ELSE "")
      [] name = "IsEnabledIT_CC1" ->
             Ret(st, IF st.tim.CC1IE THEN "-EBUSY" ELSE "")
      [] name = "type_is_period" ->
             Ret(st, IF ~IC_CAPTURE_TYPE_PERIOD(t.flags) THEN "-EINVAL"
                                                         ELSE "")
      [] name = "callback_is_set" ->
             Ret(st, IF st.cpt.callback = NULL THEN "-EINVAL" ELSE "")
      [] name = "callback" -> Ret([st EXCEPT !.cpt.callback = t.cb], "")
      [] name = "user_data" ->
             Ret([st EXCEPT !.cpt.user_data = t.user_data], "")
      [] name = "continuous" ->
             Ret([st EXCEPT !.cpt.continuous =
                                IC_CAPTURE_MODE_CONTINUOUS(t.flags)], "")
      [] name = "init_capture_channel" ->
             LET r == init_capture_channel(st, t.channel, t.flags, "CH1",
                                           FALSE)
             IN  Ret(r.st, IF r.ret = "0" THEN "" ELSE r.ret)
      [] name = "EnableARRPreload" -> Ret([st EXCEPT !.tim.ARPE = TRUE], "")
      [] name = "SetAutoReload" ->
             Ret([st EXCEPT !.tim.ARR = IF ~c.is32b
                                        THEN U32(0, xFFFF)
                                        ELSE U32(xFFFF, xFFFF)], "")
      [] name = "EnableUpdateEvent" ->
             Ret([st EXCEPT !.tim.UDIS = FALSE], "")
      [] name = "skip_irq" ->
             Ret([st EXCEPT !.cpt.skip_irq = c.skipped], "")
      [] name = "overflows" -> Ret([st EXCEPT !.cpt.overflows = 0], "")
      [] name = "ClearFlag_CC1" -> Ret([st EXCEPT !.tim.CC1IF = FALSE], "")
      [] name = "ClearFlag_UPDATE" -> Ret([st EXCEPT !.tim.UIF = FALSE], "")
      [] name = "EnableIT_CC1" -> Ret([st EXCEPT !.tim.CC1IE = TRUE], "")
      [] name = "EnableIT_UPDATE" -> Ret([st EXCEPT !.tim.UIE = TRUE], "")
      [] name = "CC_EnableChannel" -> Ret([st EXCEPT !.tim.CC1E = TRUE], "")
      [] name = "GenerateEvent_UPDATE" ->
             Ret([st EXCEPT !.tim = LL_TIM_GenerateEvent_UPDATE(@)], "")
      [] name = "SetUpdateSource" ->
             Ret([st EXCEPT !.tim.URS = "REGULAR"], "")
      [] name = "DisableIT_CC1" -> Ret([st EXCEPT !.tim.CC1IE = FALSE], "")
      [] name = "DisableIT_UPDATE" -> Ret([st EXCEPT !.tim.UIE = FALSE], "")
      [] name = "CC_DisableChannel" ->
             Ret([st EXCEPT !.tim.CC1E = FALSE], "")

\* a flag set on entry of the call stays "pending" while it stays set
Stale(was, flag) == IF was = "pending" /\ ~flag THEN "cleared" ELSE was

\* statement name of the call in progress has been executed
Done(name) ==
    \E i \in 1 .. (task.pc - 1) : StatementsOf(task.fn)[i] = name

\* the timer raises its interrupt while an enabled flag is set
IrqPending == (tim.UIE /\ tim.UIF) \/ (tim.CC1IE /\ tim.CC1IF)

(***************************************************************************)
(* Actions.                                                                *)
(***************************************************************************)
\* the call returns at the channel check or at the busy check before it
\* reads flags, cb and user_data: one value stands for them there
ArgsRead(channel) == channel = 1 /\ ~tim.CC1IE
Unread(S) == {CHOOSE x \in S : TRUE}

configure_capture ==
    \E channel \in Channels :
      \E flags \in IF ArgsRead(channel) THEN FlagValues
                                        ELSE Unread(FlagValues),
         cb \in IF ArgsRead(channel) THEN Callbacks \cup {NULL}
                                     ELSE Unread(Callbacks),
         user_data \in IF ArgsRead(channel) THEN UserData
                                            ELSE Unread(UserData),
         ll_error \in IF ArgsRead(channel) THEN BOOLEAN ELSE {FALSE} :
        \E r \in {ic_stm32_configure_capture(St, cfg.is32b, channel, flags,
                                            cb, user_data, ll_error)} :
            /\ tim' = r.st.tim
            /\ cpt' = r.st.cpt
            /\ cbs' = r.st.cbs
            /\ op' = [Op("configure_capture", channel, r.ret, NoPre)
                          EXCEPT !.type =
                              IF r.ret \in {"-ENOTSUP", "-EBUSY"}
                              THEN NoType ELSE IC_CAPTURE_TYPE(flags)]
            /\ conf' = IF r.ret = "0"
                       THEN [valid |-> TRUE, cb |-> cb,
                             user_data |-> user_data]
                       ELSE conf
            /\ UNCHANGED <<cfg, hist, task>>

enable_capture ==
    \E channel \in Channels :
        \E r \in {ic_stm32_enable_capture(St, cfg.skipped, channel)} :
            /\ tim' = r.st.tim
            /\ cpt' = r.st.cpt
            /\ cbs' = r.st.cbs
            /\ op' = Op("enable_capture", channel, r.ret, Pre)
            /\ hist' = IF r.ret = "0"
                       THEN [seen |-> FALSE, shot |-> FALSE,
                             since |-> 0, sinceCont |-> 0]
                       ELSE hist
            /\ UNCHANGED <<cfg, conf, task>>

disable_capture ==
    \E channel \in Channels :
        \E r \in {ic_stm32_disable_capture(St, channel)} :
            /\ tim' = r.st.tim
            /\ cpt' = r.st.cpt
            /\ cbs' = r.st.cbs
            /\ op' = Op("disable_capture", channel, r.ret, NoPre)
            /\ UNCHANGED <<cfg, hist, conf, task>>

\* 1 if this entry of the ISR takes its update branch, 0 if not
Handled == IF tim.UIF /\ cpt.skip_irq = 0 THEN 1 ELSE 0

isr ==
    /\ IrqPending
    /\ \E s \in {ic_stm32_isr(St)} :
           /\ tim' = s.tim
           /\ cpt' = s.cpt
           /\ cbs' = s.cbs
    /\ op' = Op("isr", 0, "0", Pre)
    /\ hist' = [seen |-> hist.seen \/ tim.CC1IF,
                shot |-> hist.shot \/ (tim.CC1IF /\ cpt.skip_irq = 0
                                       /\ ~cpt.continuous),
                since |-> IF tim.CC1IF /\ cpt.skip_irq = 0 THEN 0
                          ELSE hist.since + Handled,
                sinceCont |-> IF tim.CC1IF /\ cpt.skip_irq = 0
                                 /\ cpt.continuous
                              THEN 0 ELSE hist.sinceCont + Handled]
    /\ task' = IF task.fn = "idle" THEN task
               ELSE [task EXCEPT !.preempted = TRUE,
                                 !.staleCC1 = Stale(@, tim'.CC1IF),
                                 !.staleUIF = Stale(@, tim'.UIF)]
    /\ UNCHANGED <<cfg, conf>>

\* hardware: the counter has counted up to v when an active edge arrives
\* on the input; with the capture channel enabled the edge latches the
\* counter into CCR1 and sets the capture-compare flag
InputEdge ==
    /\ tim.CC1E
    /\ \E v \in CounterValues :
          /\ Le32(tim.CNT, v)
          /\ tim' = [tim EXCEPT !.CNT = v, !.CCR1 = v, !.CC1IF = TRUE]
    /\ cbs' = <<>>
    /\ op' = Op("InputEdge", 0, "0", NoPre)
    /\ UNCHANGED <<cfg, cpt, hist, conf, task>>

\* hardware: the counter wraps past the auto-reload value
CounterOverflow ==
    /\ cpt.overflows < MaxOverflows
    /\ tim' = [tim EXCEPT !.CNT = U32(0, 0),
                          !.UIF = IF ~tim.UDIS THEN TRUE ELSE @]
    /\ cbs' = <<>>
    /\ op' = Op("CounterOverflow", 0, "0", NoPre)
    /\ UNCHANGED <<cfg, cpt, hist, conf, task>>

\* what a call can do: where the division is by zero either the processor
\* traps (the call does not return) or the quotient is 0
DivideOutcomes(r) ==
    IF r.ret = "fault" THEN {r, [ret |-> "0", cycles |-> 0]} ELSE {r}

get_cycles_per_sec ==
    \E channel \in Channels :
        \E r \in DivideOutcomes(ic_stm32_get_cycles_per_sec(cfg, channel)) :
            /\ op' = [Op("get_cycles_per_sec", channel, r.ret, NoPre)
                          EXCEPT !.out = IF r.ret = "0"
                                         THEN ToDigits(r.cycles) ELSE <<>>]
            /\ cbs' = <<>>
            /\ UNCHANGED <<cfg, tim, cpt, hist, conf, task>>

cycles_to_usec ==
    \E channel \in Channels, cycles \in CycleValues :
        \E r \in {ic_cycles_to_usec(cfg, channel, cycles)} :
            /\ op' = [Op("ic_cycles_to_usec", channel, r.ret, NoPre)
                          EXCEPT !.arg = cycles, !.out = r.usec]
            /\ cbs' = <<>>
            /\ UNCHANGED <<cfg, tim, cpt, hist, conf, task>>

\* task context enters a driver function; nothing of it has run yet
task_call ==
    /\ task.fn = "idle"
    /\ \E fn \in {"configure_capture", "enable_capture", "disable_capture"},
          flags \in PreemptFlags, pair \in PreemptPairs :
           task' = [fn |-> fn, pc |-> 1, channel |-> 1,
                    flags |-> IF fn = "configure_capture" THEN flags ELSE 0,
                    cb |-> IF fn = "configure_capture" THEN pair[1]
                                                       ELSE NULL,
                    user_data |-> IF fn = "configure_capture" THEN pair[2]
                                                              ELSE "NULL",
                    staleCC1 |-> IF fn = "enable_capture" /\ tim.CC1IF
                                 THEN "pending" ELSE "no",
                    staleUIF |-> IF fn = "enable_capture" /\ tim.UIF
                                 THEN "pending" ELSE "no",
                    preempted |-> FALSE]
    /\ cbs' = <<>>
    /\ op' = Op("call", 0, "0", NoPre)
    /\ UNCHANGED <<cfg, tim, cpt, hist, conf>>

\* task context executes the next statement of the function it is in, and
\* returns after the last one or on an early return
task_statement ==
    /\ task.fn # "idle"
    /\ LET name == StatementsOf(task.fn)[task.pc]
           r == Statement(St, cfg, task, name)
           returns == r.ret # "" \/ task.pc = Len(StatementsOf(task.fn))
           ret == IF r.ret # "" THEN r.ret ELSE "0"
       IN  /\ tim' = r.st.tim
           /\ cpt' = r.st.cpt
           /\ cbs' = <<>>
           /\ task' = IF returns THEN TaskIdle
                      ELSE [task EXCEPT
                                !.pc = @ + 1,
                                !.staleCC1 = Stale(@, r.st.tim.CC1IF),
                                !.staleUIF = Stale(@, r.st.tim.UIF)]
           /\ op' = IF returns THEN Op(task.fn, task.channel, ret, NoPre)
                               ELSE Op("statement", 0, "0", NoPre)
           /\ hist' = IF task.fn = "enable_capture" /\ name = "overflows"
                      THEN [seen |-> FALSE, shot |-> FALSE,
                            since |-> 0, sinceCont |-> 0]
                      ELSE hist
           /\ conf' = IF returns /\ ret = "0"
                         /\ task.fn = "configure_capture"
                      THEN [valid |-> TRUE, cb |-> task.cb,
                            user_data |-> task.user_data]
                      ELSE conf
    /\ UNCHANGED cfg

\* ic_stm32_init's call get_tim_clk(&cfg->pclken, &data->tim_clk)
resolve_tim_clk ==
    \E r \in {get_tim_clk(cfg.clk)} :
        /\ cfg' = IF r.written THEN [cfg EXCEPT !.tim_clk = r.tim_clk]
                               ELSE cfg
        /\ op' = Op("get_tim_clk", 0, r.ret, NoPre)
        /\ cbs' = <<>>
        /\ UNCHANGED <<tim, cpt, hist, conf, task>>

Next ==
    \/ configure_capture
    \/ enable_capture
    \/ disable_capture
    \/ isr
    \/ InputEdge
    \/ CounterOverflow

Spec == Init /\ [][Next]_vars

\* builds with SKIPPED_IC_CAPTURES set to any value in 0..MaxSkipped, on a
\* 16-bit timer instance
InitSkipped ==
    /\ cfg \in [is32b : {FALSE}, skipped : 0..MaxSkipped,
                prescaler : {U32(0, 0)}, tim_clk : {16000000}]
    /\ InitCommon

SpecSkipped == InitSkipped /\ [][Next]_vars

\* the clock rate and the conversions on an initialised device, for the
\* timer clocks and prescalers of TimClks and Prescalers
InitCycles ==
    /\ cfg \in [is32b : {FALSE}, skipped : {SKIPPED_IC_CAPTURES},
                prescaler : Prescalers, tim_clk : TimClks]
    /\ InitCommon

NextCycles ==
    \/ get_cycles_per_sec
    \/ cycles_to_usec

SpecCycles == InitCycles /\ [][NextCycles]_vars

\* the same with every value the uint32_t field cfg->prescaler can hold
\* represented, UINT32_MAX included
InitPrescaler ==
    /\ cfg \in [is32b : {FALSE}, skipped : {SKIPPED_IC_CAPTURES},
                prescaler : Prescalers \cup {U32(0, 1), U32(1, 0),
                                             U32(xFFFF, xFFFF)},
                tim_clk : TimClks]
    /\ InitCommon

SpecPrescaler == InitPrescaler /\ [][NextCycles]_vars

\* the timer clock resolved during ic_stm32_init, data->tim_clk still
\* zero-initialised, for the clock trees of ApbPrescalers, BusClks and
\* HclkValues on series with and without the TIMPRE bit
InitClock ==
    /\ cfg \in [is32b : {FALSE}, skipped : {SKIPPED_IC_CAPTURES},
                prescaler : {U32(0, 0)}, tim_clk : {0},
                clk : [timpre : {"NONE", "TWICE", "FOUR"},
                       apb_psc : ApbPrescalers, bus_clk : BusClks,
                       hclk : HclkValues, rate_error : BOOLEAN]]
    /\ InitCommon

NextClock == resolve_tim_clk

SpecClock == InitClock /\ [][NextClock]_vars

\* one task-context caller whose calls are taken statement by statement,
\* the ISR running between any two of them while the timer requests its
\* interrupt; 16-bit timer, SKIPPED_IC_CAPTURES in 0..MaxSkipped
NextPreempt ==
    \/ task_call
    \/ task_statement
    \/ isr
    \/ InputEdge
    \/ CounterOverflow

SpecPreempt == InitSkipped /\ [][NextPreempt]_vars


(***************************************************************************)
(* Properties.                                                             *)
(***************************************************************************)
Sites(s) == [i \in DOMAIN s |-> s[i].site]
MaxPeriod == IF cfg.is32b THEN U32(xFFFF, xFFFF) ELSE U32(0, xFFFF)
IsrStep == op.name = "isr"

\* C1: every callback the ISR makes for a capture-compare event carries
\* status success, the raw captured counter value as period_cycles and
\* pulse_cycles 0, also when an overflow was handled in the same entry.
C1_CaptureCallbackSuccess ==
    \A i \in DOMAIN cbs :
        cbs[i].site = "capture" =>
            /\ cbs[i].status = "0"
            /\ cbs[i].period_cycles = tim.CCR1
            /\ cbs[i].pulse_cycles = 0

\* C2: an ISR entry with skip_irq = 0 invokes the callback once for a
\* pending overflow and then once for a pending capture, in that order, and
\* not otherwise; no entry invokes it more than twice.
C2_OverflowThenCapture ==
    IsrStep =>
        /\ Len(cbs) <= 2
        /\ op.pre.skip_irq = 0 =>
              Sites(cbs) = (IF op.pre.UIF THEN <<"overflow">> ELSE <<>>)
                           \o (IF op.pre.CC1IF THEN <<"capture">> ELSE <<>>)

C2_Witness ==
    /\ IsrStep /\ op.pre.skip_irq = 0 /\ op.pre.UIF /\ op.pre.CC1IF
    /\ Len(cbs) = 2

\* C3: handling a pending overflow with skip_irq = 0 clears the update flag,
\* adds one to overflow_count and invokes the callback with range error,
\* pulse 0 and the largest value of the timer's register width as period.
C3_OverflowCallbackMaxPeriod ==
    (IsrStep /\ op.pre.skip_irq = 0 /\ op.pre.UIF) =>
        /\ ~tim.UIF
        /\ (~op.pre.CC1IF \/ ~cpt.continuous) =>
               cpt.overflows = op.pre.overflows + 1
        /\ Len(cbs) >= 1
        /\ cbs[1].site = "overflow"
        /\ cbs[1].status = "-ERANGE"
        /\ cbs[1].pulse_cycles = 0
        /\ cbs[1].period_cycles = MaxPeriod

\* C4: in continuous mode the ISR leaves both interrupts and the capture
\* channel enabled, and a capture event handled in an entry after overflows
\* were counted gets a success callback and sets overflow_count to 0.
C4_OverflowSelfHealing ==
    (IsrStep /\ op.pre.skip_irq = 0 /\ cpt.continuous) =>
        /\ tim.CC1IE /\ tim.UIE /\ tim.CC1E
        /\ (op.pre.overflows > 0 /\ op.pre.CC1IF) =>
               /\ cpt.overflows = 0
               /\ \E i \in DOMAIN cbs :
                     cbs[i].site = "capture" /\ cbs[i].status = "0"

\* C5: once the ISR has handled a valid capture in single-shot mode, no
\* step invokes the callback until enable_capture succeeds again.
C5_SingleShotStops == [][hist.shot => cbs' = <<>>]_vars

C5_Witness ==
    /\ hist.shot /\ ~cpt.continuous
    /\ op.name = "CounterOverflow" /\ tim.UIF

\* C6: the first capture-compare event the ISR handles after a successful
\* enable_capture is discarded without a callback.
C6_FirstCaptureDiscarded ==
    [][(op'.name = "isr" /\ tim.CC1IF /\ ~hist.seen) =>
           \A i \in DOMAIN cbs' : cbs'[i].site # "capture"]_vars

C8_EnableResetsCounters ==
    (op.name = "enable_capture" /\ op.ret = "0") =>
        /\ cpt.overflows = 0
        /\ cpt.skip_irq = cfg.skipped

C8_Witness ==
    /\ op.name = "enable_capture" /\ op.ret = "0"
    /\ op.pre.overflows > 0
    /\ op.pre.skip_irq # cfg.skipped

\* C9: enable_capture on channel 1 or 2 with no callback stored returns
\* -EINVAL and changes no register and no session field.
C9_EnableUnconfigured ==
    [][(op'.name = "enable_capture" /\ op'.channel \in {1, 2}
            /\ cpt.callback = NULL) =>
           /\ op'.ret = "-EINVAL"
           /\ tim' = tim
           /\ cpt' = cpt]_vars

C9_Witness ==
    /\ op.name = "enable_capture" /\ op.channel \in {1, 2}
    /\ op.ret = "-EINVAL"
    /\ cpt.callback = NULL
    /\ tim.ARPE

C11_ConfigureBusy ==
    tim.CC1IE =>
        \A flags \in FlagValues, cb \in Callbacks \cup {NULL},
           user_data \in UserData, ll_error \in BOOLEAN :
            ic_stm32_configure_capture(St, cfg.is32b, 1, flags, cb,
                                       user_data, ll_error)
                = Ret(St, "-EBUSY")

C11_Witness ==
    /\ op.name = "configure_capture" /\ op.channel = 1
    /\ op.ret = "-EBUSY"
    /\ tim.CC1IE /\ cpt.overflows > 0 /\ cpt.callback # NULL

C13_ConfigureNotPeriod ==
    ~tim.CC1IE =>
        \A flags \in {f \in AllFlags : IC_CAPTURE_TYPE(f) \in {0, 2}},
           cb \in Callbacks \cup {NULL}, user_data \in UserData,
           ll_error \in BOOLEAN :
            ic_stm32_configure_capture(St, cfg.is32b, 1, flags, cb,
                                       user_data, ll_error)
                = Ret(St, "-EINVAL")

C13_Witness ==
    /\ op.name = "configure_capture" /\ op.channel = 1
    /\ op.ret = "-EINVAL" /\ op.type = 2
    /\ cpt.callback # NULL /\ cpt.user_data # "NULL" /\ cpt.continuous

\* C14: configure_capture returns 0 only for flags whose capture type is
\* exactly period; pulse and both are rejected.
C14_OnlyPeriodAccepted ==
    (op.name = "configure_capture" /\ op.ret = "0") => op.type = 1

\* C15: a configure_capture that returns -EIO leaves every session field
\* as it was, and when no configure_capture has succeeded an enable_capture
\* that follows it returns -EINVAL.
C15_IoFaultStoresNothing ==
    [][/\ (op'.name = "configure_capture" /\ op'.ret = "-EIO") =>
              cpt' = cpt
       /\ (op.name = "configure_capture" /\ op.ret = "-EIO"
               /\ ~conf.valid
               /\ op'.name = "enable_capture" /\ op'.channel \in {1, 2}) =>
              op'.ret = "-EINVAL"]_vars

\* C16: a configure_capture that returns 0 (on channel 1, the one channel
\* it accepts) stores callback (NULL allowed), user_data and the continuous
\* flag, sets the auto-reload register to the largest value of the timer's
\* width, and leaves both interrupt enables, skip_irq, overflows and the
\* period as they were.
C16_ConfigureFrame ==
    \A flags \in AllFlags, cb \in Callbacks \cup {NULL},
       user_data \in UserData, ll_error \in BOOLEAN :
        LET r == ic_stm32_configure_capture(St, cfg.is32b, 1, flags,
                                            cb, user_data, ll_error)
        IN  r.ret = "0" =>
                /\ r.st.cpt = [cpt EXCEPT
                       !.callback = cb,
                       !.user_data = user_data,
                       !.continuous = IC_CAPTURE_MODE_CONTINUOUS(flags)]
                /\ r.st.tim.ARR = MaxPeriod
                /\ r.st.tim.CC1IE = tim.CC1IE
                /\ r.st.tim.UIE = tim.UIE

C16_Witness ==
    /\ op.name = "configure_capture" /\ op.ret = "0"
    /\ cpt.callback = NULL /\ cpt.user_data = "ud1"
    /\ tim.ARR = U32(xFFFF, xFFFF)
    /\ cpt.overflows > 0 /\ cpt.period # U32(0, 0)

\* C17: disable_capture on channel 1 or 2 returns 0 in every state, leaves
\* both interrupts and the capture channel disabled, changes no session
\* field, and a second call changes nothing more; on any other channel it
\* returns -EINVAL and changes nothing.
C17_DisableIdempotent ==
    \A channel \in Channels :
        LET r == ic_stm32_disable_capture(St, channel)
        IN  IF channel \in {1, 2}
            THEN /\ r.ret = "0"
                 /\ ~r.st.tim.CC1IE /\ ~r.st.tim.UIE /\ ~r.st.tim.CC1E
                 /\ r.st.cpt = cpt
                 /\ ic_stm32_disable_capture(r.st, channel) = r
            ELSE r = Ret(St, "-EINVAL")

C17_Witness ==
    /\ op.name = "disable_capture" /\ op.ret = "0"
    /\ ~tim.CC1IE /\ ~tim.UIE /\ ~tim.CC1E
    /\ tim.CC1IF /\ tim.UIF /\ cpt.overflows > 0

\* C18: every callback invocation is of the callback given to the most
\* recent configure_capture that returned 0, with the user_data given to
\* that call.
C18_CallbackAsConfigured ==
    \A i \in DOMAIN cbs :
        /\ conf.valid
        /\ cbs[i].cb = conf.cb
        /\ cbs[i].user_data = conf.user_data

\* the mathematical prescaler + 1 of the configuration
Divisor == cfg.prescaler[1] * 65536 + cfg.prescaler[2] + 1
\* q is floor(n / d), n and q in decimal digits: q * d <= n < (q + 1) * d
IsFloor(q, n, d) ==
    /\ LeDigits(MulSmall(q, d), n)
    /\ LtDigits(n, MulSmall(IncDigits(q), d))
\* ds * 10^6
Million(ds) == Norm(ds \o <<0, 0, 0, 0, 0, 0>>)

\* C19: get_cycles_per_sec returns 0 for every channel argument and stores
\* floor(tim_clk / (prescaler + 1)): 12000000 for 48000000 with prescaler
\* 3, 16000000 for 16000000 with prescaler 0.
C19_CyclesPerSec ==
    op.name = "get_cycles_per_sec" =>
        /\ op.ret = "0"
        /\ IsFloor(op.out, ToDigits(cfg.tim_clk), Divisor)
        /\ (cfg.tim_clk = 48000000 /\ cfg.prescaler = U32(0, 3)) =>
               op.out = <<1, 2, 0, 0, 0, 0, 0, 0>>
        /\ (cfg.tim_clk = 16000000 /\ cfg.prescaler = U32(0, 0)) =>
               op.out = <<1, 6, 0, 0, 0, 0, 0, 0>>

C19_Witness ==
    /\ op.name = "get_cycles_per_sec" /\ op.channel = 0
    /\ cfg.tim_clk = 48000000 /\ cfg.prescaler = U32(0, xFFFF)
    /\ op.out = <<7, 3, 2>>

\* C20: ic_cycles_to_usec returns 0 for every 32-bit cycles argument and
\* stores floor(cycles * 1000000 / cycles_per_sec), 125 for 2000 cycles at
\* 16000000 per second; the multiplication reports an overflow exactly
\* when the product is above 2^64 - 1.
C20_CyclesToUsec ==
    /\ op.name = "ic_cycles_to_usec" =>
           /\ op.ret = "0"
           /\ IsFloor(op.out, Million(op.arg), cfg.tim_clk \div Divisor)
           /\ (op.arg = <<2, 0, 0, 0>> /\ cfg.tim_clk = 16000000
                   /\ cfg.prescaler = U32(0, 0)) =>
                  op.out = <<1, 2, 5>>
    /\ \A a \in CycleValues \cup {DivSmall(U64Max, USEC_PER_SEC),
                                  IncDigits(DivSmall(U64Max, USEC_PER_SEC)),
                                  U64Max} :
           u64_mul_overflow(a, USEC_PER_SEC).overflow
               <=> LtDigits(U64Max, Million(a))

C20_Witness ==
    /\ op.name = "ic_cycles_to_usec" /\ op.ret = "0"
    /\ op.arg = <<4, 2, 9, 4, 9, 6, 7, 2, 9, 5>>
    /\ cfg.prescaler = U32(0, xFFFF)
    /\ Len(op.out) > 10

\* C21: at a fixed rate ic_cycles_to_usec is non-decreasing in cycles: the
\* value a successful conversion stored is not below the value of any
\* successful conversion of fewer cycles and not above that of any of more
\* cycles.
C21_UsecMonotonic ==
    (op.name = "ic_cycles_to_usec" /\ op.ret = "0") =>
        \A t \in CycleValues :
            LET r == ic_cycles_to_usec(cfg, op.channel, t)
            IN  r.ret = "0" =>
                    /\ LeDigits(t, op.arg) => LeDigits(r.usec, op.out)
                    /\ LeDigits(op.arg, t) => LeDigits(op.out, r.usec)

C21_Witness ==
    /\ op.name = "ic_cycles_to_usec" /\ op.ret = "0"
    /\ op.arg = <<1, 6>> /\ op.out = <<1>>
    /\ ic_cycles_to_usec(cfg, op.channel, <<1, 5>>).usec = <<0>>
    /\ ic_cycles_to_usec(cfg, op.channel, <<2, 0, 0, 0>>).usec = <<1, 2, 5>>

\* C22: when the ISR invokes the callback of its capture-compare branch the
\* capture flag is already cleared, the captured value is already stored as
\* the session's period and is the period passed, a single-shot session is
\* already disabled and a continuous one has its overflow count at zero and
\* is still armed, and the counter is already forced to zero.
C22_CaptureOrder ==
    \A i \in DOMAIN cbs :
        cbs[i].site = "capture" =>
            /\ ~cbs[i].at.CC1IF
            /\ cbs[i].at.period = tim.CCR1
            /\ cbs[i].period_cycles = cbs[i].at.period
            /\ cbs[i].at.CNT = U32(0, 0)
            /\ IF cpt.continuous
               THEN cbs[i].at.overflows = 0
                    /\ cbs[i].at.CC1IE /\ cbs[i].at.UIE
               ELSE ~cbs[i].at.CC1IE /\ ~cbs[i].at.UIE

\* a success callback for a capture taken at a non-zero count, in a
\* continuous session
C22_Witness ==
    /\ op.name = "isr" /\ Len(cbs) = 1
    /\ cbs[1].site = "capture" /\ cbs[1].status = "0"
    /\ cbs[1].period_cycles = U32(0, 2000)
    /\ cbs[1].at.CNT = U32(0, 0)
    /\ cpt.continuous

\* C23, as stated: after every ISR entry that handled a capture-compare
\* event with skip_irq = 0 the overflow count is zero, in either mode, and
\* the overflow count always equals the number of overflow events handled
\* since the last valid capture or successful enable_capture.
C23_ResetOnEveryCapture ==
    /\ (IsrStep /\ op.pre.CC1IF /\ op.pre.skip_irq = 0) => cpt.overflows = 0
    /\ cpt.overflows = hist.since

\* C23: a valid capture of a continuous session leaves the overflow count
\* zero, a valid capture of a single-shot session leaves it as the update
\* branch of the same entry left it, and the overflow count always equals
\* the number of overflow events handled since the last valid capture of a
\* continuous session or successful enable_capture.
C23_ResetOnContinuousCapture ==
    /\ (IsrStep /\ op.pre.CC1IF /\ op.pre.skip_irq = 0) =>
           cpt.overflows = IF cpt.continuous THEN 0
                           ELSE op.pre.overflows
                                + (IF op.pre.UIF THEN 1 ELSE 0)
    /\ cpt.overflows = hist.sinceCont

\* a single-shot capture handled after an overflow: the count is kept
C23_Witness ==
    /\ IsrStep /\ op.pre.CC1IF /\ op.pre.skip_irq = 0
    /\ ~cpt.continuous /\ cpt.overflows = 2 /\ hist.since = 0

\* C24: the update event that enable_capture forces leads to no callback:
\* when the ISR is the first step after a successful enable_capture, with
\* no input edge and no counter wrap in between, it invokes no callback and
\* the overflow count stays 0.
C24_SyntheticUpdateSilent ==
    [][(op.name = "enable_capture" /\ op.ret = "0" /\ op'.name = "isr") =>
           (cbs' = <<>> /\ cpt'.overflows = 0)]_vars

\* both interrupts of the timer are disabled
Disarmed == ~tim.CC1IE /\ ~tim.UIE

\* C25: a successful disable_capture leaves both interrupts disabled; while
\* they are disabled the ISR does not run, no callback is invoked, the
\* session fields change only by configure_capture or enable_capture, and
\* only a successful enable_capture arms them again; a successful
\* enable_capture leaves the timer exactly as it would with no flag pending
\* on entry, the capture flag clear, so a condition left pending is not
\* delivered.
C25_QuietAfterDisable ==
    [][/\ (op'.name = "disable_capture" /\ op'.ret = "0") => Disarmed'
       /\ Disarmed =>
              /\ op'.name # "isr"
              /\ cbs' = <<>>
              /\ op'.name \notin {"configure_capture", "enable_capture"}
                     => cpt' = cpt
              /\ ~(op'.name = "enable_capture" /\ op'.ret = "0")
                     => Disarmed'
       /\ (op'.name = "enable_capture" /\ op'.ret = "0") =>
              /\ ~tim'.CC1IF
              /\ tim' = ic_stm32_enable_capture(
                            [St EXCEPT !.tim.CC1IF = FALSE,
                                       !.tim.UIF = FALSE],
                            cfg.skipped, op'.channel).st.tim]_vars

\* enable_capture succeeded with an edge and an overflow still flagged from
\* the session before
C25_Witness ==
    /\ op.name = "enable_capture" /\ op.ret = "0"
    /\ op.pre.CC1IF /\ op.pre.UIF
    /\ ~tim.CC1IF

\* C26: an ISR that preempts enable_capture after its LL_TIM_EnableIT_CC1
\* finds no flag that was already pending when enable_capture was called,
\* and the first such ISR finds skip_irq at the configured discard count
\* and the overflow count at zero.
C26_EnablePreempted ==
    [][(op'.name = "isr" /\ task.fn = "enable_capture"
        /\ Done("EnableIT_CC1")) =>
           /\ task.staleCC1 # "pending"
           /\ task.staleUIF # "pending"
           /\ ~task.preempted =>
                  (cpt.skip_irq = cfg.skipped /\ cpt.overflows = 0)]_vars

\* the ISR handled a fresh capture inside an enable_capture that was
\* called with a capture and an overflow still flagged and with other
\* counters than the reset ones
C26_Witness ==
    /\ op.name = "isr" /\ task.fn = "enable_capture"
    /\ Done("CC_EnableChannel")
    /\ task.staleCC1 = "cleared" /\ task.staleUIF = "cleared"
    /\ op.pre.CC1IF /\ op.pre.skip_irq = 1 /\ op.pre.overflows = 0
    /\ cfg.skipped = 1

\* some but not all of the three session fields configure_capture stores
\* have been written by the call in progress
BetweenWrites ==
    /\ task.fn = "configure_capture"
    /\ \E name \in {"callback", "user_data", "continuous"} : Done(name)
    /\ \E name \in {"callback", "user_data", "continuous"} : ~Done(name)

\* C27: the ISR never runs while configure_capture is between its writes
\* of callback, user_data and continuous, and every callback the ISR makes
\* gets the user_data that was passed to configure_capture together with
\* that callback.
C27_ConfigureNotPreempted ==
    [][op'.name = "isr" =>
           /\ ~BetweenWrites
           /\ \A i \in DOMAIN cbs' :
                  <<cbs'[i].cb, cbs'[i].user_data>> \in PreemptPairs]_vars

\* the ISR ran inside a configure_capture call, before its busy check, and
\* delivered the pair of the session in progress, not the call's
C27_Witness ==
    /\ op.name = "isr" /\ task.fn = "configure_capture"
    /\ task.preempted /\ task.cb = "cb1"
    /\ Len(cbs) = 1 /\ cbs[1].cb = "cb2" /\ cbs[1].user_data = "ud2"

\* C28: get_cycles_per_sec never divides by zero: whenever it is called
\* the divisor cfg->prescaler + 1, in uint32_t arithmetic, is not zero.
C28_DivisorNonZero ==
    op.name = "get_cycles_per_sec" => Inc32(cfg.prescaler) # U32(0, 0)

\* the threshold and the multiplier of a TIMPRE mode
Multiplier == IF cfg.clk.timpre = "TWICE" THEN 2 ELSE 4

\* C29, as stated: with the TIMPRE bit the timer clock is HCLK when the
\* APB prescaler is below the threshold and the bus clock times the
\* multiplier when it is at or above it; without the bit it is the bus
\* clock when the APB prescaler is 1 and twice the bus clock otherwise.
C29_BelowThreshold ==
    (op.name = "get_tim_clk" /\ op.ret = "0") =>
        cfg.tim_clk =
            IF cfg.clk.timpre = "NONE"
            THEN IF cfg.clk.apb_psc = 1 THEN cfg.clk.bus_clk
                                        ELSE 2 * cfg.clk.bus_clk
            ELSE IF cfg.clk.apb_psc < Multiplier
                 THEN cfg.clk.hclk
                 ELSE Multiplier * cfg.clk.bus_clk

\* C29: with the TIMPRE bit the timer clock is HCLK when the APB prescaler
\* is at or below the threshold (2 in x2 mode, 4 in x4 mode) and the bus
\* clock times the multiplier when it is above it; without the bit it is
\* the bus clock when the APB prescaler is 1 and twice the bus clock
\* otherwise.
C29_UpToThreshold ==
    (op.name = "get_tim_clk" /\ op.ret = "0") =>
        cfg.tim_clk =
            IF cfg.clk.timpre = "NONE"
            THEN IF cfg.clk.apb_psc = 1 THEN cfg.clk.bus_clk
                                        ELSE 2 * cfg.clk.bus_clk
            ELSE IF cfg.clk.apb_psc <= Multiplier
                 THEN cfg.clk.hclk
                 ELSE Multiplier * cfg.clk.bus_clk

\* x2 mode with the APB prescaler at the threshold and the bus rate half
\* the core clock, rounded down: the timer clock is the core clock, which
\* twice the bus rate does not give back
C29_Witness ==
    /\ op.name = "get_tim_clk" /\ op.ret = "0"
    /\ cfg.clk.timpre = "TWICE" /\ cfg.clk.apb_psc = 2
    /\ cfg.clk.hclk = 99999975 /\ cfg.clk.bus_clk = 49999987
    /\ cfg.tim_clk = 99999975

\* C30: in every state reached by configure_capture, enable_capture and
\* disable_capture calls and ISR entries, a callback is stored whenever the
\* capture-compare interrupt is enabled, and the capture-compare and the
\* update interrupt are enabled together or not at all.
C30_ArmedImpliesConfigured ==
    /\ tim.CC1IE => cpt.callback # NULL
    /\ tim.CC1IE = tim.UIE

\* a configure_capture refused while the session is armed
C30_Witness ==
    /\ op.name = "configure_capture" /\ op.ret = "-EBUSY"
    /\ tim.CC1IE /\ tim.UIE /\ cpt.callback # NULL

\* C31: once the ISR has completed a single-shot capture, and until
\* enable_capture succeeds again, the session is not busy: configure_capture
\* on channel 1 with any flags that hold the period type returns 0 (the
\* channel programming succeeding), and enable_capture(1) returns 0 and
\* arms both interrupts and the channel with the callback unchanged, unless
\* a configure_capture since the capture stored no callback; right after
\* the ISR entry that completed the capture a callback is stored.
C31_SingleShotNotBusy ==
    hist.shot =>
        /\ ~tim.CC1IE
        /\ \A flags \in {f \in AllFlags : IC_CAPTURE_TYPE_PERIOD(f)},
              cb \in Callbacks \cup {NULL} :
               ic_stm32_configure_capture(St, cfg.is32b, 1, flags, cb,
                                          "ud1", FALSE).ret = "0"
        /\ IsrStep => cpt.callback # NULL
        /\ LET r == ic_stm32_enable_capture(St, cfg.skipped, 1)
           IN  cpt.callback # NULL =>
                   /\ r.ret = "0"
                   /\ r.st.tim.CC1IE /\ r.st.tim.UIE /\ r.st.tim.CC1E
                   /\ r.st.cpt.callback = cpt.callback
                   /\ r.st.cpt.user_data = cpt.user_data

\* the ISR has just completed a single-shot capture and left the session
\* disarmed with its callback
C31_Witness ==
    /\ IsrStep /\ hist.shot /\ op.pre.CC1IF
    /\ ~cpt.continuous /\ cpt.callback = "cb1"
    /\ Len(cbs) = 1 /\ cbs[1].site = "capture"
    /\ ~tim.CC1IE /\ ~tim.UIE /\ ~tim.CC1E

====
